---- MODULE Spec2Model ----
(***************************************************************************)
(* A model of ozon_login.py: the batch orchestrator main, the login state  *)
(* machine login_to_ozon, the session factory setup_browser_with_proxy,    *)
(* the proxy health check verify_proxy_working and the mailbox poller      *)
(* extract_otp_from_email.                                                 *)
(*                                                                         *)
(* Strings are sequences of one-character strings.  Python's None, NaN and *)
(* the empty string are all falsy where the program tests them, and are    *)
(* modelled by the empty sequence None.                                    *)
(*                                                                         *)
(* External calls (browser, mailbox, file system) are nondeterministic:    *)
(* each action draws the outcome of the calls it makes from the outcomes   *)
(* the library can produce (a value or an exception).  mail.close() and    *)
(* mail.logout() are taken to succeed.                                     *)
(***************************************************************************)
EXTENDS Integers, Sequences, FiniteSets, TLC

VARIABLES
    \* ---- main ----
    pc,             \* position of main
    index,          \* the row main's loop is at (1..NumAccounts+1)
    df,             \* the in-memory table: row -> Cookies field
    df0,            \* the Cookies column as loaded at the start of the run
    xlsx,           \* acc_ozon_updated.xlsx on disk: row -> Cookies field
    browser,        \* main's variable browser: 0 is None, else a session id
    plugin_path,    \* main's variable plugin_path: 0 is None, else a file id
    live,           \* ids of the browser processes that are running
    files,          \* ids of the proxy_auth_plugin_*.zip files on disk
    clock,          \* number of sessions/artifacts created so far (time.time())
    pass,           \* what the current pass of main's loop did so far
    logins,         \* the login_to_ozon calls made: <<session, row>>
    returned,       \* row -> how its login_to_ozon call ended ("none": no call)
    cleanup_failed, \* some browser.quit() or os.remove(plugin_path) raised so far
    \* ---- login_to_ozon ----
    lpc,            \* position of login_to_ozon
    lg,             \* the locals of the running call, and what it did
    \* ---- extract_otp_from_email ----
    epc,            \* position of extract_otp_from_email
    ex,             \* its locals and observations of the call
    \* ---- pure functions checked on their own ----
    phone_number,   \* argument of the phone formatting
    formatted_phone,\* its result (NotRun before it ran)
    email_message,  \* argument of the body walk: a sequence of parts
    walk,           \* its result (WalkNotRun before it ran)
    \* ---- verify_proxy_working checked on its own ----
    vp              \* its position, what the pages show and what it visited

vars == <<pc, index, df, df0, xlsx, browser, plugin_path, live, files,
          clock, pass, logins, returned, cleanup_failed, lpc, lg, epc, ex,
          phone_number, formatted_phone, email_message, walk, vp>>

mainVars  == <<pc, index, df, df0, xlsx, browser, plugin_path, live,
               files, clock, pass, logins, returned, cleanup_failed>>
loginVars == <<lpc, lg>>
otpVars   == <<epc, ex>>
pureVars  == <<phone_number, formatted_phone, email_message, walk>>
verifyVars == <<vp>>

----------------------------------------------------------------------------
(* Bounds *)

NumAccounts == 2      \* rows of the account table
MaxSegs == 3          \* segments a generated message body is built from
MaxParts == 2         \* parts of a generated multi-part message
MaxPhoneTail == 11    \* digits after the prefix of a generated phone number
MaxBudget == 3        \* largest max_retries the poller is run with on its own

----------------------------------------------------------------------------
(* Strings *)

None == <<>>

Digit == {"0", "1", "2", "3", "4", "5", "6", "7", "8", "9"}

DigitAt(k) ==
    CASE k = 0 -> "0" [] k = 1 -> "1" [] k = 2 -> "2" [] k = 3 -> "3"
      [] k = 4 -> "4" [] k = 5 -> "5" [] k = 6 -> "6" [] k = 7 -> "7"
      [] k = 8 -> "8" [] k = 9 -> "9"

\* the digit string of length n that starts with digit d and counts upwards
Run(n, d) == [i \in 1..n |-> DigitAt((d + i - 1) % 10)]

Min(S) == CHOOSE x \in S : \A y \in S : x <= y
Max(S) == CHOOSE x \in S : \A y \in S : x >= y

\* re.IGNORECASE on the letters of the two keywords; the Cyrillic letters
\* of the localized keyword are written "ru_k", "ru_o", "ru_d" (upper case
\* "RU_K", "RU_O", "RU_D") and are other characters than the Latin ones
Lower(c) ==
    CASE c = "RU_K" -> "ru_k" [] c = "RU_O" -> "ru_o" [] c = "RU_D" -> "ru_d"
      [] c = "C" -> "c" [] c = "O" -> "o" [] c = "D" -> "d" [] c = "E" -> "e"
      [] OTHER -> c

startswith(s, prefix) ==
    /\ Len(s) >= Len(prefix)
    /\ SubSeq(s, 1, Len(prefix)) = prefix

\* s[-n:]
Tail_n(s, n) == IF Len(s) <= n THEN s ELSE SubSeq(s, Len(s) - n + 1, Len(s))

----------------------------------------------------------------------------
(* login_to_ozon: "Format phone number if needed" *)

FormatPhone(phone) ==
    IF ~startswith(phone, <<"+">>)
    THEN IF startswith(phone, <<"9">>) \/ startswith(phone, <<"8">>)
         THEN <<"+", "7">> \o Tail_n(phone, 10)
         ELSE phone
    ELSE phone

----------------------------------------------------------------------------
(* extract_otp_from_email: the pattern tiers *)

IsDigitsAt(s, i, n) ==
    /\ i + n - 1 <= Len(s)
    /\ \A k \in i..(i + n - 1) : s[k] \in Digit

\* re.search(r'(\d{n})', body).group(1), None when there is no match
SearchDigits(s, n) ==
    LET hits == {i \in 1..Len(s) : IsDigitsAt(s, i, n)}
    IN  IF hits = {} THEN None
        ELSE SubSeq(s, Min(hits), Min(hits) + n - 1)

IsKeywordAt(s, i, kw) ==
    /\ i + Len(kw) - 1 <= Len(s)
    /\ \A k \in 1..Len(kw) : Lower(s[i + k - 1]) = kw[k]

\* re.search(kw + r'\D*(\d+)', body, re.IGNORECASE).group(1): the leftmost
\* keyword that has a digit somewhere after it, the greedy \D* runs to the
\* first digit after the keyword and the greedy \d+ takes the whole run
SearchKeyword(s, kw) ==
    LET after(i) == {j \in (i + Len(kw))..Len(s) : s[j] \in Digit}
        hits == {i \in 1..Len(s) : IsKeywordAt(s, i, kw) /\ after(i) # {}}
    IN  IF hits = {} THEN None
        ELSE LET j0 == Min(after(Min(hits)))
                 e  == Max({j \in j0..Len(s) : \A k \in j0..j : s[k] \in Digit})
             IN  SubSeq(s, j0, e)

KwRu == <<"ru_k", "ru_o", "ru_d">>
KwEn == <<"c", "o", "d", "e">>

\* the tier at which a body yields a code, and the code; tier 0 is no match
NoMatch == [tier |-> 0, otp |-> None]

ScanBodyFourFirst(body) ==
    LET d6 == SearchDigits(body, 6)
        d4 == SearchDigits(body, 4)
        ru == SearchKeyword(body, KwRu)
        en == SearchKeyword(body, KwEn)
    IN  IF d4 # None THEN [tier |-> 2, otp |-> d4]
        ELSE IF d6 # None THEN [tier |-> 1, otp |-> d6]
        ELSE IF ru # None THEN [tier |-> 3, otp |-> ru]
        ELSE IF en # None THEN [tier |-> 4, otp |-> en]
        ELSE NoMatch

\* lines 118-153: the four re.search calls in their order
ScanBody(body) ==
    LET d6 == SearchDigits(body, 6)
        d4 == SearchDigits(body, 4)
        ru == SearchKeyword(body, KwRu)
        en == SearchKeyword(body, KwEn)
    IN  IF d6 # None THEN [tier |-> 1, otp |-> d6]
        ELSE IF d4 # None THEN [tier |-> 2, otp |-> d4]
        ELSE IF ru # None THEN [tier |-> 3, otp |-> ru]
        ELSE IF en # None THEN [tier |-> 4, otp |-> en]
        ELSE NoMatch

IsText(part) == part.ctype = "text/plain" \/ part.ctype = "text/html"

\* for part in email_message.walk(): the first text part whose body yields a
\* code ends the walk; part 0 is "the walk found nothing"
RECURSIVE WalkFrom(_, _)
WalkFrom(msg, i) ==
    IF i > Len(msg) THEN [part |-> 0, tier |-> 0, otp |-> None]
    ELSE LET r == IF IsText(msg[i]) THEN ScanBody(msg[i].body) ELSE NoMatch
         IN  IF r.tier # 0
             THEN [part |-> i, tier |-> r.tier, otp |-> r.otp]
             ELSE WalkFrom(msg, i + 1)

WalkParts(msg) == WalkFrom(msg, 1)

----------------------------------------------------------------------------
(* extract_otp_from_email: the mailbox and one attempt *)

DefaultMaxRetries == 8

CTypes == {"text/plain", "text/html", "image/png"}

TextPart(body) == [ctype |-> "text/plain", body |-> body]

\* messages the mailbox of a polled account may hold
MsgCode6 == <<TextPart(<<"x">> \o Run(6, 1) \o <<"x">>)>>
MsgCode4 == <<[ctype |-> "image/png", body |-> Run(6, 3)],
              [ctype |-> "text/html", body |-> Run(4, 5) \o <<"x">>]>>
MsgNoCode == <<TextPart(<<"x", "x">>)>>
SampleMsgs == {MsgCode6, MsgCode4, MsgNoCode}

\* a mail in the inbox: its content, and what the three searches see of it:
\*   ozon_unseen  from ozon.ru and unread     ozon_seen  from ozon.ru, read
\*   subject      from elsewhere, with a keyword in its subject
\*   other        matched by no search
MailKinds == {"ozon_unseen", "ozon_seen", "subject", "other"}
Mails(msgs) == [kind : MailKinds, parts : msgs]

\* inboxes of at most n mails, oldest first
Inboxes(msgs, n) ==
    UNION {[1..k -> Mails(msgs)] : k \in 0..n}

\* the maximal digit runs of a string, as <<first, last>> positions
DigitRuns(s) ==
    {<<i, j>> \in (1..Len(s)) \X (1..Len(s)) :
       /\ i <= j
       /\ \A k \in i..j : s[k] \in Digit
       /\ (i = 1 \/ s[i - 1] \notin Digit)
       /\ (j = Len(s) \/ s[j + 1] \notin Digit)}

\* a mail that carries one valid 6-digit code: one text part, whose only
\* digits are one run of six; the code, else None
SixDigitCodeOf(parts) ==
    IF /\ Len(parts) = 1
       /\ parts[1].ctype \in {"text/plain", "text/html"}
       /\ Cardinality(DigitRuns(parts[1].body)) = 1
       /\ \E r \in DigitRuns(parts[1].body) : r[2] - r[1] = 5
    THEN LET r == CHOOSE r \in DigitRuns(parts[1].body) : TRUE
         IN  SubSeq(parts[1].body, r[1], r[2])
    ELSE None

\* the inbox of an attempt yields a mail with a valid 6-digit code: no call
\* fails, some mail matches a search, and every matching mail carries the
\* same valid code; the code, else None (SampleCodes: the code of each of
\* the messages a mailbox may hold)
SampleCodes == [parts \in SampleMsgs |-> SixDigitCodeOf(parts)]

YieldedCode(inbox, err) ==
    LET matching == {i \in 1..Len(inbox) : inbox[i].kind # "other"}
    IN  IF /\ err = "none"
           /\ matching # {}
           /\ \A i \in matching : SampleCodes[inbox[i].parts] # None
           /\ \A i, j \in matching :
                 SampleCodes[inbox[i].parts] = SampleCodes[inbox[j].parts]
        THEN SampleCodes[inbox[CHOOSE i \in matching : TRUE].parts]
        ELSE None

\* an inbox that holds no mail any of the three searches matches
NoMatchingMail(inbox) ==
    \A i \in 1..Len(inbox) : inbox[i].kind = "other"

\* the call of an attempt that raises when the attempt reaches it
MailErrors == {"none", "connect", "login", "select", "search_unseen",
               "search_from", "search_subject", "fetch"}

\* mail.search(None, criterion): the matching mails, oldest first
SearchUnseen(inbox) ==
    SelectSeq(inbox, LAMBDA m : m.kind = "ozon_unseen")
SearchFrom(inbox) ==
    SelectSeq(inbox, LAMBDA m : m.kind \in {"ozon_unseen", "ozon_seen"})
\* (reached only when the inbox holds no mail from ozon.ru)
SearchSubject(inbox) ==
    SelectSeq(inbox, LAMBDA m : m.kind = "subject")

Raised(opened) ==
    [opened |-> opened, closed |-> 0, raised |-> TRUE, searched |-> FALSE,
     fetched |-> None, otp |-> None]

\* lines 113-156 on each message a mailbox may hold (computed once)
SampleWalks == [parts \in SampleMsgs |-> WalkParts(parts)]

\* the mail the attempt fetches: mail_ids[-1]
Latest(mail_ids) == mail_ids[Len(mail_ids)]

\* lines 106-159: fetch the latest mail and walk its parts; the session is
\* closed on both the found and the not-found path
FetchAndWalk(mail_ids, err) ==
    IF mail_ids = <<>>
    THEN [opened |-> 1, closed |-> 1, raised |-> FALSE, searched |-> TRUE,
          fetched |-> None, otp |-> None]
    ELSE IF err = "fetch" THEN Raised(1)
    ELSE [opened |-> 1, closed |-> 1, raised |-> FALSE, searched |-> TRUE,
          fetched |-> Latest(mail_ids).parts,
          otp |-> SampleWalks[Latest(mail_ids).parts].otp]

\* lines 85-159, the try block of one attempt: what it opened, closed,
\* fetched and found, and whether it raised
RunAttempt(inbox, err) ==
    LET unseen == SearchUnseen(inbox)
        from == SearchFrom(inbox)
    IN  IF err = "connect" THEN Raised(0)
        ELSE IF err \in {"login", "select", "search_unseen"} THEN Raised(1)
        ELSE IF unseen # <<>> THEN FetchAndWalk(unseen, err)
        ELSE IF err = "search_from" THEN Raised(1)
        ELSE IF from # <<>> THEN FetchAndWalk(from, err)
        ELSE IF err = "search_subject" THEN Raised(1)
        ELSE FetchAndWalk(SearchSubject(inbox), err)

\* lines 161-163: the sleep after an attempt that found nothing and is not
\* the last; an attempt that found a code returns at once
SleepsAfterEvery(found, attempt, max_retries) ==
    IF attempt < max_retries - 1 THEN 1 ELSE 0

SleepsAfter(found, attempt, max_retries) ==
    IF found THEN 0
    ELSE IF attempt < max_retries - 1 THEN 1 ELSE 0

\* lines 165-169: the except clause of an attempt sleeps when the attempt
\* is not the last
SleepsAfterErrorNever(attempt, max_retries) == 0

SleepsAfterError(attempt, max_retries) ==
    IF attempt < max_retries - 1 THEN 1 ELSE 0

\* for attempt in range(max_retries)
LoopGoesOnOneLess(attempt, max_retries) == attempt < max_retries - 1

LoopGoesOn(attempt, max_retries) == attempt < max_retries

\* the locals of a call, with what the call did so far:
\*   attempt   attempts finished          opened  mailbox sessions opened
\*   open      sessions not yet closed    sleeps  time.sleep(retry_interval) calls
\*   quiet     attempts whose inbox held no matching mail and raised no error
\*   given     the code the inbox of the last attempt yielded (YieldedCode)
\*   fetched   the parts of the mail the last attempt fetched (None: no mail)
\*   raised    whether the last attempt ended in its except clause
\*   erred     whether some attempt ended in its except clause
ExtractStart(max_retries) ==
    [max_retries |-> max_retries, attempt |-> 0, opened |-> 0, open |-> 0,
     sleeps |-> 0, quiet |-> 0, given |-> None, fetched |-> None,
     raised |-> FALSE, erred |-> FALSE,
     otp |-> None]

ExtractIdle == ExtractStart(0)

\* one pass of the for loop, lines 84-169
Attempt(inboxes) ==
    /\ epc = "loop"
    /\ LoopGoesOn(ex.attempt, ex.max_retries)
    /\ \E inbox \in inboxes, err \in MailErrors :
         LET r == RunAttempt(inbox, err)
         IN  /\ ex' = [ex EXCEPT
                   !.attempt = @ + 1,
                   !.opened = @ + r.opened,
                   !.open = @ + r.opened - r.closed,
                   !.sleeps = @ + (IF r.raised
                                   THEN SleepsAfterError(ex.attempt,
                                                         ex.max_retries)
                                   ELSE SleepsAfter(r.otp # None, ex.attempt,
                                                    ex.max_retries)),
                   !.quiet = @ + (IF err = "none" /\ NoMatchingMail(inbox)
                                  THEN 1 ELSE 0),
                   !.given = YieldedCode(inbox, err),
                   !.fetched = r.fetched,
                   !.raised = r.raised,
                   !.erred = @ \/ r.raised,
                   !.otp = r.otp]
             /\ epc' = IF r.otp # None THEN "returned" ELSE "loop"

\* lines 171-172: the loop ran out
Exhausted ==
    /\ epc = "loop"
    /\ ~LoopGoesOn(ex.attempt, ex.max_retries)
    /\ ex' = [ex EXCEPT !.otp = None]
    /\ epc' = "returned"

\* the whole call, lines 84-172, on a script that gives the inbox and the
\* failing call of every attempt: the code returned, or None
RECURSIVE ExtractFrom(_, _, _)
ExtractFrom(script, attempt, max_retries) ==
    IF ~LoopGoesOn(attempt, max_retries) THEN None
    ELSE LET r == RunAttempt(script[attempt + 1].inbox, script[attempt + 1].err)
         IN  IF r.otp # None THEN r.otp
             ELSE ExtractFrom(script, attempt + 1, max_retries)

ExtractOtp(script, max_retries) == ExtractFrom(script, 0, max_retries)

\* the mailboxes a login polls: a mail that is in the inbox from attempt
\* `arrives` on (never, when arrives is past the budget), and a call that
\* raises in every attempt up to `err_until`
LoginScripts ==
    {[a \in 1..DefaultMaxRetries |->
        [inbox |-> IF a >= arrives THEN <<mail>> ELSE <<>>,
         err |-> IF a <= err_until THEN err ELSE "none"]] :
       mail \in Mails(SampleMsgs),
       arrives \in {1, DefaultMaxRetries, DefaultMaxRetries + 1},
       err \in MailErrors \ {"none"},
       err_until \in {0, 1, DefaultMaxRetries}}

\* what extract_otp_from_email can return to login_to_ozon
LoginOtpCodes ==
    {ExtractOtp(script, DefaultMaxRetries) : script \in LoginScripts}

----------------------------------------------------------------------------
(* setup_browser_with_proxy and verify_proxy_working *)

\* where setup_browser_with_proxy fails:
\*   artifact_fail     create_proxy_auth_extension raises before the zip exists
\*   artifact_partial  it raises after zipfile.ZipFile created the file
\*   options_fail      an options call raises (the artifact exists)
\*   launch_fail       ChromeDriverManager().install() or webdriver.Chrome raises
\*   script_fail       execute_cdp_cmd raises (the browser process runs)
SetupOutcomes == {"ok", "artifact_fail", "artifact_partial", "options_fail",
                  "launch_fail", "script_fail"}

\* lines 174-234.  id names the new artifact file and the new browser
\* process; removed says whether os.remove in the except clause succeeds.
\* The result: the pair returned, whether that os.remove raised, and the
\* processes and files afterwards.
SetupBrowser(outcome, removed, id, lv, fs) ==
    CASE outcome = "ok" ->
           [browser |-> id, plugin_path |-> id, remove_failed |-> FALSE,
            live |-> lv \cup {id}, files |-> fs \cup {id}]
      [] outcome = "artifact_fail" ->
           [browser |-> 0, plugin_path |-> 0, remove_failed |-> FALSE,
            live |-> lv, files |-> fs]
      [] outcome = "artifact_partial" ->
           [browser |-> 0, plugin_path |-> 0, remove_failed |-> FALSE,
            live |-> lv, files |-> fs \cup {id}]
      [] outcome \in {"options_fail", "launch_fail"} ->
           [browser |-> 0, plugin_path |-> id, remove_failed |-> ~removed,
            live |-> lv,
            files |-> IF removed THEN fs ELSE fs \cup {id}]
      [] outcome = "script_fail" ->
           [browser |-> 0, plugin_path |-> id, remove_failed |-> ~removed,
            live |-> lv \cup {id},
            files |-> IF removed THEN fs ELSE fs \cup {id}]

\* what one IP-echo service shows: an address in the proxy range, another
\* address, a body that is no dotted quad, or browser.get raises
ServiceOutcomes == {"match", "other_ip", "invalid", "raise"}
NumServices == 3
SiteOutcomes == {"on", "off", "raise"}

\* lines 246-261: the loop over ip_services from service i on;
\* "fallthrough" when the loop ends without a return
RECURSIVE CheckServices(_, _)
CheckServices(svc, i) ==
    IF i > Len(svc) THEN "fallthrough"
    ELSE IF svc[i] = "raise" THEN "raised"
    ELSE IF svc[i] = "match" THEN "confirmed"
    ELSE CheckServices(svc, i + 1)

\* lines 236-275
VerifyProxy(svc, site) ==
    CASE CheckServices(svc, 1) = "confirmed" -> TRUE
      [] CheckServices(svc, 1) = "raised" -> FALSE
      [] OTHER -> site = "on"

\* what verify_proxy_working can return
VerifyAnswers ==
    {VerifyProxy(svc, site) :
       svc \in [1..NumServices -> ServiceOutcomes], site \in SiteOutcomes}

\* the locals of a verify_proxy_working call run on its own:
\*   svc, site     what each IP-echo service and the retail site will show
\*   visited       services loaded so far (they are loaded in list order)
\*   site_visited  the retail site was loaded
\*   answer        "none" while running, then "True" or "False"
VerifyStart(svc, site) ==
    [pc |-> "services", svc |-> svc, site |-> site, visited |-> 0,
     site_visited |-> FALSE, answer |-> "none"]

VerifyIdle == [VerifyStart(<<>>, "on") EXCEPT !.pc = "idle"]

\* lines 246-261, one pass of the loop: load the next service and test the
\* address it shows; an exception of browser.get or find_element goes to
\* the except clause of lines 273-275
VerifyService ==
    /\ vp.pc = "services"
    /\ vp.visited < NumServices
    /\ LET shown == vp.svc[vp.visited + 1]
           seen == [vp EXCEPT !.visited = @ + 1]
       IN  vp' = CASE shown = "match" ->
                        [seen EXCEPT !.pc = "returned", !.answer = "True"]
                   [] shown = "raise" ->
                        [seen EXCEPT !.pc = "returned", !.answer = "False"]
                   [] OTHER ->
                        IF vp.visited + 1 = NumServices
                        THEN [seen EXCEPT !.pc = "site"]
                        ELSE seen

\* lines 263-271: no service showed a proxy address; load the retail site
VerifySite ==
    /\ vp.pc = "site"
    /\ vp' = [vp EXCEPT !.pc = "returned", !.site_visited = TRUE,
                        !.answer = IF vp.site = "on" THEN "True" ELSE "False"]

\* browser.quit(): the process ends, or the call raises and the process
\* has or has not ended
QuitOutcomes == {"ok", "raise_dead", "raise_live"}

AfterQuit(lv, b, q) == IF q = "raise_live" THEN lv ELSE lv \ {b}

----------------------------------------------------------------------------
(* main *)

Accounts == 1..NumAccounts

\* phone numbers of the rows: the two of the specification's examples, and
\* one with the country code but no plus sign
Phone8 == <<"8", "9", "9", "9", "1", "2", "3", "4", "5", "6", "7">>
PhonePlus7 == <<"+", "7", "9", "9", "9", "1", "2", "3", "4", "5", "6", "7">>
Phone7 == <<"7", "9", "9", "9", "1", "2", "3", "4", "5", "6", "7">>
MainPhones == {Phone8, PhonePlus7, Phone7}

NotRun == <<"not run">>
WalkNotRun == [part |-> -1, tier |-> -1, otp |-> None]

\* the locals of a login_to_ozon call, with what the call did so far:
\*   row, session, phone   the arguments index, browser, phone_number
\*   stage        the state of the login state machine
\*   navs         browser.get("https://www.ozon.ru") calls
\*   typed        what was typed into the phone field
\*   otp_called   extract_otp_from_email was called
\*   otp_timeout  the wait for the OTP input ran out
\*   entered      what was typed into the OTP input
\*   offs         loads of the home page that landed off the domain
\*   no_code      extract_otp_from_email returned no code
\*   indicated    what the test of line 398 saw: "yes" an indicator or the
\*                retail domain, "no" neither, "none" not (or not fully) tested
\*   verified     the success branch of line 398 was taken
\*   denied       the else branch of line 409 was taken
\*   shots        names of the screenshots saved (each file name carries row)
\*   result       "none" while running, then "True", "False" or "raised"
LoginIdle == [row |-> 0, session |-> 0, phone |-> None, stage |-> "START",
              navs |-> 0, typed |-> None, otp_called |-> FALSE,
              otp_timeout |-> FALSE, entered |-> None, verified |-> FALSE,
              offs |-> 0, no_code |-> FALSE, indicated |-> "none",
              denied |-> FALSE,
              shots |-> {}, result |-> "none"]

\* str(cookies) of the list browser.get_cookies() returns
StrOf(cookies) == <<"[">> \o cookies \o <<"]">>
CookieJars == {<<>>, <<"c">>}

\* pd.notna(row.get('Cookies')) and row.get('Cookies')
IsDoneNever(cookies) == FALSE

IsDone(cookies) == cookies # None

\* what the current pass of the loop did: setup_browser_with_proxy was
\* called, the session it returned (0: none), verify_proxy_working's answer
NoPass == [setup |-> FALSE, session |-> 0, verify |-> "none"]

\* continue / the end of the loop body
NextRow ==
    /\ pc' = "loop"
    /\ index' = index + 1
    /\ pass' = NoPass

\* lines 462-470: the loop head and the skip of rows that have cookies
MainLoop ==
    /\ pc = "loop"
    /\ IF index > NumAccounts
       THEN pc' = "final" /\ UNCHANGED <<index, pass>>
       ELSE IF IsDone(df[index])
       THEN NextRow
       ELSE pc' = "teardown" /\ UNCHANGED <<index, pass>>
    /\ UNCHANGED <<df, df0, xlsx, browser, plugin_path, live, files, clock,
                   logins, returned, cleanup_failed>>
    /\ UNCHANGED <<loginVars, otpVars, pureVars, verifyVars>>

\* lines 473-483 and 522-532: quit the previous browser and remove the
\* previous artifact, both guarded
Teardown(q, removed) ==
    /\ live' = IF browser # 0 THEN AfterQuit(live, browser, q) ELSE live
    /\ files' = IF plugin_path # 0 /\ plugin_path \in files /\ removed
                THEN files \ {plugin_path} ELSE files
    /\ cleanup_failed' =
          \/ cleanup_failed
          \/ (browser # 0 /\ q # "ok")
          \/ (plugin_path # 0 /\ plugin_path \in files /\ ~removed)

MainTeardown ==
    /\ pc = "teardown"
    /\ \E q \in QuitOutcomes, removed \in BOOLEAN : Teardown(q, removed)
    /\ pc' = "setup"
    /\ UNCHANGED <<index, pass, df, df0, xlsx, browser, plugin_path, clock,
                   logins, returned>>
    /\ UNCHANGED <<loginVars, otpVars, pureVars, verifyVars>>

\* line 488: if not browser
SetupFailedNever(b) == FALSE

SetupFailed(b) == b = 0

\* lines 486-490
MainSetup ==
    /\ pc = "setup"
    /\ \E outcome \in SetupOutcomes, removed \in BOOLEAN :
         LET r == SetupBrowser(outcome, removed, clock + 1, live, files)
         IN  /\ browser' = r.browser
             /\ plugin_path' = r.plugin_path
             /\ live' = r.live
             /\ files' = r.files
             /\ cleanup_failed' = (cleanup_failed \/ r.remove_failed)
             /\ IF SetupFailed(r.browser)
                THEN NextRow
                ELSE /\ pc' = "verify"
                     /\ index' = index
                     /\ pass' = [pass EXCEPT !.setup = TRUE,
                                             !.session = r.browser]
    /\ clock' = clock + 1
    /\ UNCHANGED <<df, df0, xlsx, logins, returned>>
    /\ UNCHANGED <<loginVars, otpVars, pureVars, verifyVars>>

\* line 495: browser.quit() outside any try; TRUE when it raises
UnguardedQuitRaises(q) == q # "ok"

\* lines 493-496
MainVerify ==
    /\ pc = "verify"
    /\ \E answer \in VerifyAnswers, q \in QuitOutcomes :
         IF answer
         THEN /\ pass' = [pass EXCEPT !.verify = "ok"]
              /\ pc' = "login"
              /\ UNCHANGED <<index, live, cleanup_failed>>
         ELSE /\ live' = AfterQuit(live, browser, q)
              /\ cleanup_failed' = (cleanup_failed \/ q # "ok")
              /\ IF UnguardedQuitRaises(q)
                 THEN /\ pc' = "crashed"
                      /\ index' = index
                      /\ pass' = [pass EXCEPT !.verify = "fail"]
                 ELSE NextRow
    /\ UNCHANGED <<df, df0, xlsx, browser, plugin_path, files, clock, logins,
                   returned>>
    /\ UNCHANGED <<loginVars, otpVars, pureVars, verifyVars>>

\* lines 499-507: read the row's fields (the phone number is whatever the
\* table holds for the row) and call login_to_ozon; a field that cannot be
\* read raises inside the try and the row is given up
MainLogin ==
    /\ pc = "login"
    /\ \E details_ok \in BOOLEAN, phone \in MainPhones :
         IF details_ok
         THEN /\ pc' = "in_login"
              /\ UNCHANGED <<index, pass>>
              /\ logins' = logins \cup {<<browser, index>>}
              /\ lpc' = "navigate"
              /\ lg' = [LoginIdle EXCEPT !.row = index, !.session = browser,
                                         !.phone = phone]
         ELSE /\ NextRow
              /\ UNCHANGED <<logins, lpc, lg>>
    /\ UNCHANGED <<df, df0, xlsx, browser, plugin_path, live, files, clock,
                   returned, cleanup_failed>>
    /\ UNCHANGED <<otpVars, pureVars, verifyVars>>

\* lines 507-519: login_to_ozon returned or raised; delete_all_cookies, whose
\* failure is caught like any other, ends the pass
MainAfterLogin ==
    /\ pc = "in_login"
    /\ lpc = "done"
    /\ lpc' = "idle"
    /\ lg' = LoginIdle
    /\ returned' = [returned EXCEPT ![index] = lg.result]
    /\ NextRow
    /\ UNCHANGED <<df, df0, xlsx, browser, plugin_path, live, files, clock,
                   logins, cleanup_failed>>
    /\ UNCHANGED <<otpVars, pureVars, verifyVars>>

\* lines 521-534
MainFinal ==
    /\ pc = "final"
    /\ \E q \in QuitOutcomes, removed \in BOOLEAN : Teardown(q, removed)
    /\ pc' = "done"
    /\ UNCHANGED <<index, pass, df, df0, xlsx, browser, plugin_path, clock,
                   logins, returned>>
    /\ UNCHANGED <<loginVars, otpVars, pureVars, verifyVars>>

----------------------------------------------------------------------------
(* login_to_ozon *)

\* browser.save_screenshot(f"{name}_{index}.png"); ok is FALSE when it raises
Shot(name, ok) == IF ok THEN lg.shots \cup {name} ELSE lg.shots

\* where an exception raised in the inner try block (lines 313-412) goes
InnerHandlerGoesOn == "verify"

InnerHandler == "handler_inner"

\* a return-False site with its screenshot: return, or the exception of
\* save_screenshot goes to the handler around the site
ShotThenReturn(name, ok, handler) ==
    IF ok
    THEN /\ lpc' = "done"
         /\ lg' = [lg EXCEPT !.shots = Shot(name, ok), !.result = "False",
                             !.stage = "FAILED"]
    ELSE /\ lpc' = handler
         /\ UNCHANGED lg

\* what browser.get followed by the current_url test gives
NavOutcomes == {"on", "off", "raise"}

\* lines 280-297
LoginNavigate ==
    /\ lpc = "navigate"
    /\ \E first \in NavOutcomes, second \in NavOutcomes, ok \in BOOLEAN :
         CASE first = "raise" ->
                /\ lg' = [lg EXCEPT !.navs = 1]
                /\ lpc' = "handler_outer"
           [] first = "on" ->
                /\ lg' = [lg EXCEPT !.navs = 1, !.stage = "NAVIGATED"]
                /\ lpc' = "login_button"
           [] first = "off" /\ second = "raise" ->
                /\ lg' = [lg EXCEPT !.navs = 2, !.offs = 1]
                /\ lpc' = "handler_outer"
           [] first = "off" /\ second = "on" ->
                /\ lg' = [lg EXCEPT !.navs = 2, !.offs = 1,
                                    !.stage = "NAVIGATED"]
                /\ lpc' = "login_button"
           [] first = "off" /\ second = "off" ->
                IF ok
                THEN /\ lpc' = "done"
                     /\ lg' = [lg EXCEPT !.navs = 2, !.offs = 2,
                                         !.shots = Shot("error_navigation", ok),
                                         !.result = "False",
                                         !.stage = "FAILED"]
                ELSE /\ lpc' = "handler_outer"
                     /\ lg' = [lg EXCEPT !.navs = 2, !.offs = 2]
    /\ UNCHANGED <<mainVars, otpVars, pureVars, verifyVars>>

\* lines 299-309: the login button is clicked, or its absence is swallowed
LoginButton ==
    /\ lpc = "login_button"
    /\ lg' = [lg EXCEPT !.stage = "LOGIN_FORM"]
    /\ lpc' = "phone"
    /\ UNCHANGED <<mainVars, otpVars, pureVars, verifyVars>>

\* what happens to the phone field: it never appears (or clear() raises),
\* send_keys raises, the number is typed and submitted by the button or by
\* Enter, or Enter raises after the button was not found
PhoneOutcomes == {"no_input", "send_raises", "button", "enter", "enter_raises"}

\* lines 311-340
LoginPhone ==
    /\ lpc = "phone"
    /\ \E o \in PhoneOutcomes :
         CASE o \in {"no_input", "send_raises"} ->
                /\ lpc' = InnerHandler
                /\ UNCHANGED lg
           [] o = "enter_raises" ->
                /\ lpc' = InnerHandler
                /\ lg' = [lg EXCEPT !.typed = FormatPhone(lg.phone)]
           [] o \in {"button", "enter"} ->
                /\ lpc' = "otp_wait"
                /\ lg' = [lg EXCEPT !.typed = FormatPhone(lg.phone),
                                    !.stage = "PHONE_SUBMITTED"]
    /\ UNCHANGED <<mainVars, otpVars, pureVars, verifyVars>>

\* lines 342-347: WebDriverWait(browser, 30) for the OTP input
LoginOtpWait ==
    /\ lpc = "otp_wait"
    /\ \E appears \in BOOLEAN :
         IF appears
         THEN /\ lpc' = "otp_call"
              /\ lg' = [lg EXCEPT !.stage = "OTP_AWAITING"]
         ELSE /\ lpc' = InnerHandler
              /\ lg' = [lg EXCEPT !.otp_timeout = TRUE]
    /\ UNCHANGED <<mainVars, otpVars, pureVars, verifyVars>>

\* lines 349-378: the call of extract_otp_from_email with its default
\* budget; no code is fatal; a code is typed and submitted
LoginOtp ==
    /\ lpc = "otp_call"
    /\ \E otp_code \in LoginOtpCodes :
         LET called == [lg EXCEPT !.otp_called = TRUE]
         IN  \E ok \in BOOLEAN, entry_ok \in BOOLEAN :
               IF otp_code = None
               THEN IF ok
                    THEN /\ lpc' = "done"
                         /\ lg' = [called EXCEPT
                                !.no_code = TRUE,
                                !.shots = Shot("error_otp_retrieval", ok),
                                !.result = "False", !.stage = "FAILED"]
                    ELSE /\ lpc' = InnerHandler
                         /\ lg' = [called EXCEPT !.no_code = TRUE]
               ELSE IF entry_ok
                    THEN /\ lpc' = "verify"
                         /\ lg' = [called EXCEPT !.entered = otp_code,
                                                 !.stage = "OTP_SUBMITTED"]
                    ELSE /\ lpc' = InnerHandler
                         /\ lg' = called
    /\ UNCHANGED <<mainVars, otpVars, pureVars, verifyVars>>

\* line 398: login_successful or "ozon.ru" in browser.current_url.lower()
LoginSucceeded(indicator, url) == indicator \/ url = "on"

\* line 403: df.at[index, 'Cookies'] = str(cookies)
StoreCookies(table, row, cookies) == [table EXCEPT ![row] = StrOf(cookies)]

\* line 407: df.to_excel(...) writes the whole table; ok is FALSE when it raises
ToExcelNever(file, table, ok) == file

ToExcel(file, table, ok) == IF ok THEN table ELSE file

\* lines 380-412
LoginVerify ==
    /\ lpc = "verify"
    /\ \E indicator \in BOOLEAN, url \in NavOutcomes, ok \in BOOLEAN,
          cookies_ok \in BOOLEAN, cookies \in CookieJars, write_ok \in BOOLEAN :
         IF ~indicator /\ url = "raise"
         THEN /\ lpc' = InnerHandler
              /\ UNCHANGED <<lg, df, xlsx>>
         ELSE IF LoginSucceeded(indicator, url)
         THEN IF ~cookies_ok
              THEN /\ lpc' = InnerHandler
                   /\ lg' = [lg EXCEPT !.verified = TRUE, !.indicated = "yes"]
                   /\ UNCHANGED <<df, xlsx>>
              ELSE /\ df' = StoreCookies(df, lg.row, cookies)
                   /\ xlsx' = ToExcel(xlsx, df', write_ok)
                   /\ IF write_ok
                      THEN /\ lpc' = "done"
                           /\ lg' = [lg EXCEPT !.verified = TRUE,
                                               !.indicated = "yes",
                                               !.result = "True",
                                               !.stage = "VERIFIED"]
                      ELSE /\ lpc' = InnerHandler
                           /\ lg' = [lg EXCEPT !.verified = TRUE,
                                               !.indicated = "yes"]
         ELSE /\ IF ok
                 THEN /\ lpc' = "done"
                      /\ lg' = [lg EXCEPT !.denied = TRUE,
                                          !.indicated = "no",
                                          !.shots = Shot("login_failed", ok),
                                          !.result = "False",
                                          !.stage = "FAILED"]
                 ELSE /\ lpc' = InnerHandler
                      /\ lg' = [lg EXCEPT !.denied = TRUE,
                                          !.indicated = "no"]
              /\ UNCHANGED <<df, xlsx>>
    /\ UNCHANGED <<pc, index, pass, df0, browser, plugin_path, live, files,
                   clock, logins, returned, cleanup_failed>>
    /\ UNCHANGED <<otpVars, pureVars, verifyVars>>

\* lines 414-417: the except clause of the inner try
LoginHandlerInner ==
    /\ lpc = "handler_inner"
    /\ \E ok \in BOOLEAN : ShotThenReturn("error_login_process", ok, "handler_outer")
    /\ UNCHANGED <<mainVars, otpVars, pureVars, verifyVars>>

\* lines 419-422: the except clause of the outer try; its own screenshot is
\* unguarded, so its exception leaves login_to_ozon
LoginHandlerOuter ==
    /\ lpc = "handler_outer"
    /\ \E ok \in BOOLEAN :
         IF ok
         THEN ShotThenReturn("error_general", ok, "handler_outer")
         ELSE /\ lpc' = "done"
              /\ lg' = [lg EXCEPT !.result = "raised", !.stage = "FAILED"]
    /\ UNCHANGED <<mainVars, otpVars, pureVars, verifyVars>>

----------------------------------------------------------------------------
(* The batch run *)

PureIdle ==
    /\ phone_number = None
    /\ formatted_phone = NotRun
    /\ email_message = <<>>
    /\ walk = WalkNotRun

OtpIdle ==
    /\ epc = "idle"
    /\ ex = ExtractIdle

LoginIsIdle ==
    /\ lpc = "idle"
    /\ lg = LoginIdle

VerifyIsIdle == vp = VerifyIdle

\* lines 431-459: the table is loaded (rows of an earlier run may have
\* cookies), the file on disk equals it, no browser and no artifact yet
Init ==
    /\ pc = "loop"
    /\ index = 1
    /\ pass = NoPass
    /\ df0 \in [Accounts -> {None, StrOf(<<"c">>)}]
    /\ df = df0
    /\ xlsx = df0
    /\ browser = 0
    /\ plugin_path = 0
    /\ live = {}
    /\ files = {}
    /\ clock = 0
    /\ logins = {}
    /\ returned = [i \in Accounts |-> "none"]
    /\ cleanup_failed = FALSE
    /\ LoginIsIdle
    /\ OtpIdle
    /\ PureIdle
    /\ VerifyIsIdle

Next ==
    \/ MainLoop
    \/ MainTeardown
    \/ MainSetup
    \/ MainVerify
    \/ MainLogin
    \/ MainAfterLogin
    \/ MainFinal
    \/ LoginNavigate
    \/ LoginButton
    \/ LoginPhone
    \/ LoginOtpWait
    \/ LoginOtp
    \/ LoginVerify
    \/ LoginHandlerInner
    \/ LoginHandlerOuter

Spec == Init /\ [][Next]_vars

MainIdle ==
    /\ pc = "idle"
    /\ index = 0
    /\ pass = NoPass
    /\ df0 = <<>>
    /\ df = <<>>
    /\ xlsx = <<>>
    /\ browser = 0
    /\ plugin_path = 0
    /\ live = {}
    /\ files = {}
    /\ clock = 0
    /\ logins = {}
    /\ returned = <<>>
    /\ cleanup_failed = FALSE

----------------------------------------------------------------------------
(* extract_otp_from_email on its own *)

MaxMails == 2

InitOtp ==
    /\ MainIdle
    /\ LoginIsIdle
    /\ PureIdle
    /\ VerifyIsIdle
    /\ epc = "loop"
    /\ ex \in {ExtractStart(m) : m \in 0..MaxBudget}

PollAttempt ==
    /\ Attempt(Inboxes(SampleMsgs, MaxMails))
    /\ UNCHANGED <<mainVars, loginVars, pureVars, verifyVars>>

PollExhausted ==
    /\ Exhausted
    /\ UNCHANGED <<mainVars, loginVars, pureVars, verifyVars>>

NextOtp == PollAttempt \/ PollExhausted

SpecOtp == InitOtp /\ [][NextOtp]_vars

----------------------------------------------------------------------------
(* The phone formatting on its own *)

\* numbers as the table holds them: with the country code and a plus sign,
\* with the national prefix 8, without a prefix, and with the country code
\* but no plus sign (a numeric cell)
PhonePrefixes == {<<"+", "7">>, <<"+">>, <<"8">>, <<"9">>, <<"7">>}

Phones ==
    {pre \o Run(n, d) : pre \in PhonePrefixes, n \in 0..MaxPhoneTail, d \in {9, 1}}
      \cup MainPhones

InitPhone ==
    /\ MainIdle
    /\ LoginIsIdle
    /\ OtpIdle
    /\ VerifyIsIdle
    /\ phone_number \in Phones
    /\ formatted_phone = NotRun
    /\ email_message = <<>>
    /\ walk = WalkNotRun

\* lines 319-326
DoFormatPhone ==
    /\ formatted_phone = NotRun
    /\ formatted_phone' = FormatPhone(phone_number)
    /\ UNCHANGED <<mainVars, loginVars, otpVars, phone_number, email_message,
                   walk, verifyVars>>

NextPhone == DoFormatPhone

SpecPhone == InitPhone /\ [][NextPhone]_vars

----------------------------------------------------------------------------
(* The walk over the parts of a fetched mail on its own *)

Segments ==
    {Run(1, 9), Run(3, 7), Run(4, 5), Run(6, 1), Run(7, 3), <<"x">>,
     KwRu, <<"RU_K", "RU_O", "RU_D">>, KwEn, <<"C", "o", "d", "e">>}

\* the bodies made of at most n segments
RECURSIVE Bodies(_)
Bodies(n) ==
    IF n = 0 THEN {<<>>}
    ELSE Bodies(n - 1) \cup {b \o seg : b \in Bodies(n - 1), seg \in Segments}

Parts(bodies) == [ctype : CTypes, body : bodies]

\* one-part mails with a body of up to MaxSegs segments, and mails of up to
\* MaxParts parts with a body of at most one segment each
Messages ==
    {<<part>> : part \in Parts(Bodies(MaxSegs))}
      \cup UNION {[1..k -> Parts(Bodies(1))] : k \in 1..MaxParts}

InitWalk ==
    /\ MainIdle
    /\ LoginIsIdle
    /\ OtpIdle
    /\ VerifyIsIdle
    /\ phone_number = None
    /\ formatted_phone = NotRun
    /\ email_message \in Messages
    /\ walk = WalkNotRun

\* lines 113-156
DoWalk ==
    /\ walk = WalkNotRun
    /\ walk' = WalkParts(email_message)
    /\ UNCHANGED <<mainVars, loginVars, otpVars, phone_number, formatted_phone,
                   email_message, verifyVars>>

NextWalk == DoWalk

SpecWalk == InitWalk /\ [][NextWalk]_vars

----------------------------------------------------------------------------
(* verify_proxy_working on its own *)

InitVerify ==
    /\ MainIdle
    /\ LoginIsIdle
    /\ OtpIdle
    /\ PureIdle
    /\ vp \in {VerifyStart(svc, site) :
                 svc \in [1..NumServices -> ServiceOutcomes],
                 site \in SiteOutcomes}

DoVerifyService ==
    /\ VerifyService
    /\ UNCHANGED <<mainVars, loginVars, otpVars, pureVars>>

DoVerifySite ==
    /\ VerifySite
    /\ UNCHANGED <<mainVars, loginVars, otpVars, pureVars>>

NextVerify == DoVerifyService \/ DoVerifySite

SpecVerify == InitVerify /\ [][NextVerify]_vars

----------------------------------------------------------------------------
(* Properties of the batch run (Spec) *)

\* C1: a row whose Cookies field is non-empty at the start of the run is only
\* ever at the loop head: main never tears down, sets up, verifies or logs in
\* for it, no login_to_ozon call is made for it, and its field is unchanged.
C1_DoneRowsAreSkipped ==
    \A i \in Accounts :
      df0[i] # None =>
        /\ df[i] = df0[i]
        /\ index = i => (pc = "loop" /\ pass = NoPass /\ lpc = "idle")
        /\ \A s \in 0..clock : <<s, i>> \notin logins
        /\ returned[i] = "none"

\* the run ended, it skipped a row that had cookies and logged in for another
C1_Witness ==
    /\ pc = "done"
    /\ \E i, j \in Accounts :
         /\ df0[i] # None
         /\ df0[j] = None
         /\ returned[j] # "none"

\* C2: no failure while a row is processed leaves main's loop.
C2_NoFailureLeavesTheLoop == pc # "crashed"

\* C3: at most one browser process runs and at most one artifact file exists.
C3_AtMostOneSessionAndArtifact ==
    /\ Cardinality(live) <= 1
    /\ Cardinality(files) <= 1

\* C4 as stated: when login_to_ozon took the success branch, then at its
\* return the row's Cookies field is non-empty and is in the file on disk.
C4_VerifiedIsPersisted ==
    (lpc = "done" /\ lg.verified) =>
       /\ df[lg.row] # None
       /\ xlsx[lg.row] = df[lg.row]

\* C4 as amended: when login_to_ozon returns True, the row's Cookies field is
\* non-empty and the file on disk holds the whole in-memory table; and from
\* then on, whatever happens to later rows, the row's field is in the file.
C4_TrueIsPersisted ==
    /\ (lpc = "done" /\ lg.result = "True") =>
          /\ lg.verified
          /\ df[lg.row] # None
          /\ xlsx = df
    /\ \A i \in Accounts :
         returned[i] = "True" => (df[i] # None /\ xlsx[i] = df[i])

\* login_to_ozon returned True with an empty cookie list, and main is already
\* working on a later row
C4_Witness ==
    \E i \in Accounts :
      /\ returned[i] = "True"
      /\ df[i] = StrOf(<<>>)
      /\ index > i
      /\ pc = "setup"

\* C7: when the OTP input never appeared, login_to_ozon returns False, a
\* screenshot of the row is saved, extract_otp_from_email was not called and
\* the row's Cookies field is unset.
C7_OtpTimeoutFails ==
    (lpc = "done" /\ lg.otp_timeout) =>
       /\ lg.result = "False"
       /\ lg.shots # {}
       /\ ~lg.otp_called
       /\ df[lg.row] = None

\* C12: setup_browser_with_proxy returns to main on every outcome, and when
\* it returned no session, the artifact file that call created is gone unless
\* a removal failed.  (browser is None from a failed setup until the next
\* setup, and clock names the file that setup created.)
C12_FailedSetupLeavesNoArtifact ==
    /\ pc # "setup_raised"
    /\ (clock >= 1 /\ browser = 0 /\ ~cleanup_failed) => clock \notin files

\* C13: every login_to_ozon call got a session that setup_browser_with_proxy
\* created, in the pass of the loop that makes the call and for the row of
\* that pass, and no session is given to the calls of two rows.
C13_FreshSessionPerLogin ==
    /\ \A l \in logins : l[1] \in 1..clock
    /\ \A l1, l2 \in logins : l1[1] = l2[1] => l1[2] = l2[2]
    /\ lpc # "idle" =>
          /\ pass.setup
          /\ lg.session = pass.session
          /\ lg.session = browser
          /\ lg.row = index
          /\ <<lg.session, lg.row>> \in logins
          /\ \A l \in logins : l[2] # index => l[1] < lg.session

\* the second row's login runs on its own session after the first row's did
C13_Witness ==
    /\ lpc = "verify"
    /\ lg.row = 2
    /\ \E l \in logins : l[2] = 1 /\ l[1] # lg.session

\* C14: login_to_ozon never lets an exception reach its caller: every call
\* that ended returned True or False.
C14_LoginNeverRaises ==
    /\ lpc = "done" => lg.result \in {"True", "False"}
    /\ \A i \in Accounts : returned[i] # "raised"

\* C16: main sets up only after the teardown, verifies only a session the
\* setup of this pass returned, and logs in only after the health check
\* confirmed that session; a row whose health check failed gets no login,
\* keeps its Cookies field, and main goes on to the next row.
C16_StepsInOrder ==
    /\ pc \in {"verify", "login", "in_login"} =>
          (pass.setup /\ pass.session = browser /\ browser # 0)
    /\ pc \in {"login", "in_login"} => pass.verify = "ok"
    /\ lpc # "idle" => (pc = "in_login" /\ pass.verify = "ok")
    /\ pass.verify = "fail" =>
          /\ returned[index] = "none"
          /\ \A s \in 1..clock : <<s, index>> \notin logins
          /\ df[index] = df0[index]
          /\ pc # "crashed"

\* C17: the home page is loaded at most twice, a second time only after the
\* first load landed off the domain; after two loads off the domain no later
\* stage runs and the call returns False with a screenshot; the later stages
\* run only after a load landed on the domain.
C17_NavigationRetriedOnce ==
    /\ lg.navs <= 2
    /\ lg.offs <= lg.navs
    /\ lg.navs = 2 => lg.offs >= 1
    /\ lg.offs = 2 =>
          /\ lpc \in {"handler_outer", "done"}
          /\ lg.stage \in {"START", "FAILED"}
          /\ lg.typed = None
          /\ ~lg.otp_called
    /\ (lg.offs = 2 /\ lpc = "done") =>
          /\ lg.result = "False"
          /\ lg.shots # {}
    /\ lg.stage \notin {"START", "FAILED"} => lg.offs = lg.navs - 1

\* C18: when extract_otp_from_email returned no code, nothing is typed into
\* the OTP input, the row's Cookies field and the file are as they were, and
\* the call returns False with a screenshot saved.
C18_NoCodeIsFatal ==
    /\ lg.no_code =>
          /\ lpc \in {"handler_inner", "handler_outer", "done"}
          /\ lg.entered = None
          /\ ~lg.verified
          /\ df[lg.row] = None
          /\ xlsx[lg.row] = None
    /\ (lg.no_code /\ lpc = "done") =>
          /\ lg.result = "False"
          /\ lg.stage = "FAILED"
          /\ lg.shots # {}

\* C19: the success branch is taken exactly when an indicator was found or
\* the location is on the retail domain, and only after a code was
\* submitted; when neither is so, the call returns False with a screenshot
\* and the row's Cookies field stays unset.
C19_VerifiedIffIndicated ==
    /\ lg.verified <=> lg.indicated = "yes"
    /\ lg.denied <=> lg.indicated = "no"
    /\ lg.indicated # "none" => lg.entered # None
    /\ lg.denied => (~lg.verified /\ df[lg.row] = None)
    /\ (lg.denied /\ lpc = "done") =>
          /\ lg.result = "False"
          /\ lg.stage = "FAILED"
          /\ lg.shots # {}

\* C20: when main has ended and no browser.quit() and no os.remove raised,
\* no browser process runs and no artifact file is on disk.
C20_NothingLeftAfterTheLoop ==
    (pc = "done" /\ ~cleanup_failed) => (live = {} /\ files = {})

\* the place of a state in the order of the login state machine
StageRank(stage) ==
    CASE stage = "START" -> 0
      [] stage = "NAVIGATED" -> 1
      [] stage = "LOGIN_FORM" -> 2
      [] stage = "PHONE_SUBMITTED" -> 3
      [] stage = "OTP_AWAITING" -> 4
      [] stage = "OTP_SUBMITTED" -> 5
      [] stage \in {"VERIFIED", "FAILED"} -> 6

\* what holds of a call at every moment: it is in a terminal state exactly
\* when it has ended, VERIFIED when it returned True and FAILED otherwise;
\* the extractor was called only after the number was submitted and the OTP
\* input found; the cookies were captured only after a code was submitted
StagesInOrder ==
    /\ lg.stage \in {"VERIFIED", "FAILED"} <=> lpc = "done"
    /\ lpc = "done" =>
          /\ lg.stage = "VERIFIED" <=> lg.result = "True"
          /\ lg.stage = "FAILED" <=> lg.result \in {"False", "raised"}
    /\ lg.otp_called =>
          /\ lg.typed # None
          /\ lg.stage \in {"OTP_AWAITING", "OTP_SUBMITTED", "VERIFIED", "FAILED"}
          /\ ~lg.otp_timeout
    /\ lg.stage = "OTP_SUBMITTED" => (lg.otp_called /\ lg.entered # None)
    /\ lg.verified => (lg.otp_called /\ lg.entered # None)
    /\ (lpc # "idle" /\ df[lg.row] # df0[lg.row]) => lg.verified
    /\ lg.stage = "VERIFIED" => lg.verified

\* what holds of every step of a call: the state changes only to the next
\* state of the order or to FAILED, and a call in a terminal state does
\* nothing more (main takes its result)
StagesStep ==
    /\ (lpc # "idle" /\ lpc' # "idle" /\ lg'.stage # lg.stage) =>
          \/ lg'.stage = "FAILED"
          \/ /\ StageRank(lg'.stage) = StageRank(lg.stage) + 1
             /\ lg.row = lg'.row
    /\ lpc = "done" => (lpc' = "idle" \/ (lpc' = lpc /\ lg' = lg))

C22_FailedLeavesRecord ==
    /\ (lpc = "done" /\ lg.result # "True") => df[lg.row] = df0[lg.row]
    /\ \A i \in Accounts : returned[i] \in {"False", "raised"} => df[i] = df0[i]
    /\ lpc \in {"idle", "done"} =>
          \A i \in Accounts : df[i] # None => xlsx[i] = df[i]

----------------------------------------------------------------------------
(* Properties of extract_otp_from_email (SpecOtp) *)

\* a text part in which some pattern tier finds a code
HasDigitWindow(s, n) ==
    \E i \in 1..(Len(s) - n + 1) : \A k \in 0..(n - 1) : s[i + k] \in Digit

HasKeywordNumber(s, kw) ==
    \E i \in 1..Len(s), j \in 1..Len(s) :
      /\ i + Len(kw) <= j
      /\ \A k \in 1..Len(kw) : Lower(s[i + k - 1]) = kw[k]
      /\ s[j] \in Digit

TierMatches(t, s) ==
    CASE t = 1 -> HasDigitWindow(s, 6)
      [] t = 2 -> HasDigitWindow(s, 4)
      [] t = 3 -> HasKeywordNumber(s, KwRu)
      [] t = 4 -> HasKeywordNumber(s, KwEn)

PartHasCode(part) ==
    /\ part.ctype \in {"text/plain", "text/html"}
    /\ \E t \in 1..4 : TierMatches(t, part.body)

MailHasCode(parts) == \E i \in 1..Len(parts) : PartHasCode(parts[i])

\* C5: when attempts 1..N-1 met an inbox without any matching mail and
\* attempt N met one that yields a valid 6-digit code, the call has returned
\* that code, has opened N mailbox sessions and has slept N-1 times.
C5_CodeOnAttemptN ==
    (ex.attempt >= 1 /\ ex.quiet = ex.attempt - 1 /\ ex.given # None) =>
       /\ epc = "returned"
       /\ ex.otp = ex.given
       /\ ex.attempt <= ex.max_retries
       /\ ex.opened = ex.attempt
       /\ ex.sleeps = ex.attempt - 1

\* the code came on the last attempt of the largest budget
C5_Witness ==
    /\ epc = "returned"
    /\ ex.max_retries = MaxBudget
    /\ ex.attempt = MaxBudget
    /\ ex.quiet = MaxBudget - 1
    /\ ex.given = Run(6, 1)
    /\ ex.otp = Run(6, 1)

\* C6: None is returned only when all max_retries attempts were made and
\* the last of them found no code either; an attempt that finds a code
\* returns it, so None is never returned after a code was found; with an
\* inbox that never holds a matching mail exactly max_retries attempts are
\* made, each opening a session, and None is returned; and while attempts
\* remain the call has either returned a code or goes on.
C6_NoneIffExhausted ==
    /\ (epc = "returned" /\ ex.otp = None) =>
          /\ ex.attempt = ex.max_retries
          /\ ~MailHasCode(ex.fetched)
    /\ (ex.attempt >= 1 /\ MailHasCode(ex.fetched)) =>
          (epc = "returned" /\ ex.otp # None)
    /\ (epc = "returned" /\ ex.attempt = ex.max_retries
          /\ ~MailHasCode(ex.fetched)) => ex.otp = None
    /\ (epc = "returned" /\ ex.quiet = ex.attempt) =>
          /\ ex.otp = None
          /\ ex.attempt = ex.max_retries
          /\ ex.opened = ex.max_retries
    /\ ex.attempt <= ex.max_retries
    /\ epc = "loop" => ex.otp = None

\* the full budget was spent on an inbox that never held a matching mail
C6_Witness ==
    /\ epc = "returned"
    /\ ex.otp = None
    /\ ex.max_retries = MaxBudget
    /\ ex.attempt = MaxBudget
    /\ ex.quiet = MaxBudget

\* C10: no mailbox session is open once an attempt has ended.
C10_SessionsAreClosed == ex.open = 0

\* C11: an attempt that ended in a mailbox error has not ended the call
\* while attempts remain; it
\* used one unit of the budget like any other attempt; every attempt that
\* found nothing, by an error or not, was followed by one sleep unless it was
\* the last of the budget; and the code an attempt's inbox yields is returned
\* whatever errors the earlier attempts met.
C11_ErrorsAreFailedAttempts ==
    /\ ex.raised => ex.otp = None
    /\ (ex.raised /\ ex.attempt < ex.max_retries) => epc = "loop"
    /\ ex.attempt <= ex.max_retries
    /\ ex.opened <= ex.attempt
    /\ (ex.attempt >= 1 /\ ex.otp = None) =>
          ex.sleeps = (IF epc = "loop" /\ ex.attempt < ex.max_retries
                       THEN ex.attempt ELSE ex.max_retries - 1)
    /\ (ex.attempt >= 1 /\ ex.otp # None) => ex.sleeps = ex.attempt - 1
    /\ (ex.attempt >= 1 /\ ex.given # None) =>
          (epc = "returned" /\ ex.otp = ex.given)
    /\ (epc = "returned" /\ ex.otp = None) => ex.attempt = ex.max_retries

\* every attempt but the last of the largest budget met a mailbox error, and
\* the code that came on the last one was returned
C11_Witness ==
    /\ epc = "returned"
    /\ ex.erred
    /\ ex.max_retries = MaxBudget
    /\ ex.attempt = MaxBudget
    /\ ex.opened < ex.attempt
    /\ ex.quiet = 0
    /\ ex.sleeps = MaxBudget - 1
    /\ ex.given = Run(6, 1)
    /\ ex.otp = Run(6, 1)

----------------------------------------------------------------------------
(* Properties of verify_proxy_working (SpecVerify) *)

\* C15: when some service shows a proxy address, the call returns True at
\* the first such service, having loaded the services before it and nothing
\* after it; when none does, whatever the services showed or however they
\* failed, all services and then the retail site were loaded, and the call
\* returns True exactly when the site landed on the retail domain.
C15_FallsBackWhenNoMatch ==
    vp.pc = "returned" =>
      LET matches == {i \in 1..NumServices : vp.svc[i] = "match"}
      IN  /\ matches # {} =>
                /\ vp.answer = "True"
                /\ vp.visited = Min(matches)
                /\ ~vp.site_visited
          /\ matches = {} =>
                /\ vp.visited = NumServices
                /\ vp.site_visited
                /\ vp.answer = "True" <=> vp.site = "on"

----------------------------------------------------------------------------
(* Properties of the walk over the parts (SpecWalk) *)

\* the value of a digit run of exactly n digits that is the only run of at
\* least n digits in the string
OnlyRunOf(s, n) ==
    LET long == {r \in DigitRuns(s) : r[2] - r[1] + 1 >= n}
    IN  IF Cardinality(long) = 1 /\ \E r \in long : r[2] - r[1] + 1 = n
        THEN LET r == CHOOSE r \in long : TRUE IN SubSeq(s, r[1], r[2])
        ELSE None

HasRunOfExactly(s, n) == \E r \in DigitRuns(s) : r[2] - r[1] + 1 = n

\* C8: the part that ends the walk is the first text part in which any tier
\* matches; the tier that gave the code is the first tier, in the order
\* 6 digits, 4 digits, localized keyword, English keyword, that matches in
\* that part, and the code has that tier's shape; a body with one run of six
\* digits and a separate run of four yields the run of six, whichever comes
\* first.
C8_TiersInPriorityOrder ==
    walk # WalkNotRun =>
      /\ walk.part = 0 =>
           \A i \in 1..Len(email_message) : ~PartHasCode(email_message[i])
      /\ walk.part # 0 =>
           LET body == email_message[walk.part].body
           IN  /\ \A i \in 1..(walk.part - 1) : ~PartHasCode(email_message[i])
               /\ PartHasCode(email_message[walk.part])
               /\ walk.tier \in 1..4
               /\ TierMatches(walk.tier, body)
               /\ \A t \in 1..(walk.tier - 1) : ~TierMatches(t, body)
               /\ walk.tier = 1 => Len(walk.otp) = 6
               /\ walk.tier = 2 => Len(walk.otp) = 4
               /\ walk.otp # None
               /\ \A k \in 1..Len(walk.otp) : walk.otp[k] \in Digit
               /\ (OnlyRunOf(body, 6) # None /\ HasRunOfExactly(body, 4)) =>
                     walk.otp = OnlyRunOf(body, 6)

\* the run of four comes before the run of six and the six digits are returned
C8_Witness ==
    /\ email_message = <<TextPart(Run(4, 5) \o <<"x">> \o Run(6, 1))>>
    /\ walk.tier = 1
    /\ walk.otp = Run(6, 1)

----------------------------------------------------------------------------
(* Properties of the phone formatting (SpecPhone) *)

\* C9: a number that starts with '+' is typed unchanged, 89991234567 becomes
\* +79991234567, and whatever the number, what is typed begins with '+'.
C9_TypedBeginsWithPlus ==
    formatted_phone # NotRun =>
      /\ startswith(phone_number, <<"+">>) => formatted_phone = phone_number
      /\ phone_number = Phone8 => formatted_phone = PhonePlus7
      /\ startswith(formatted_phone, <<"+">>)

====
